---- MODULE Spec2Model ----
(***************************************************************************)
(* A model of smart_document_chat: the vector store (vector_store.py), the *)
(* RAG chat engine (chat_engine.py) and the text chunker                   *)
(* (document_processor.py).                                                *)
(*                                                                         *)
(* Python strings are sequences of one-character strings where the code    *)
(* looks inside them (the chunker's text, file names as code points) and   *)
(* TLA+ strings where it only passes them on.  Python positions are        *)
(* 0-based; text[p] is written text[p + 1] here.                           *)
(***************************************************************************)
EXTENDS Integers, Sequences, FiniteSets, TLC

VARIABLES
    collection,   \* VectorStore.collection: the stored rows, in insertion order
    last,         \* the operation that returned last, with its argument and return value
    pc,           \* ChatEngine.get_response: position of the call in progress
    locals,       \* get_response: its arguments and locals, and the answer of the generation service
    requests,     \* POST requests sent to the generation service by the call in progress
    searches,     \* retrieval searches made by the call in progress
    result,       \* what get_response returned (or raised) to its caller
    text,         \* split_text: the text
    chunk_size,   \* split_text: chunk_size
    overlap,      \* split_text: overlap
    start,        \* split_text: the cursor
    end,          \* split_text: the end of the current chunk
    chunks,       \* split_text: the output list
    ranges,       \* the slice [lo, hi) of text each appended chunk was cut from
    split_pc,     \* split_text: position in the loop
    pdf_call,     \* process_pdf: the call made last, its arguments and its outcome
    folder,       \* the documents folder: the PDF behind each file name in it
    run,          \* preprocess_documents.process_documents: the run in progress
    stores,       \* the file names whose chunks a run has stored, in the order of the calls
    messages,     \* app.py: st.session_state.messages
    reply,        \* main.py: the HTTP reply of the upload endpoint to the request made last
    workers       \* the ingestion callers that run side by side, each with its position

storeVars == <<collection, last>>
chatVars == <<pc, locals, requests, searches, result>>
splitVars == <<text, chunk_size, overlap, start, end, chunks, ranges, split_pc>>
pdfVars == <<pdf_call>>
ingestVars == <<folder, run, stores>>
uiVars == <<messages>>
apiVars == <<reply>>
workerVars == <<workers>>
vars == <<collection, last, pc, locals, requests, searches, result,
          text, chunk_size, overlap, start, end, chunks, ranges, split_pc,
          pdf_call, folder, run, stores, messages, reply, workers>>

(***************************************************************************)
(* Bounds of the model.                                                    *)
(***************************************************************************)
MaxStored == 2
MaxBatch == 2
MaxTextLen == 4
MaxChunkSize == 3
WideTextLen == 5
WideChunkSize == 4
MaxChunks == 8
MaxPages == 2
MaxFiles == 2
MaxRuns == 2
MaxHistory == 4
MaxMessages == 4
MaxUploads == 3

\* process_pdf splits every page with chunk_size=800 and overlap=200; the page
\* texts of the model are a few characters long, and so are these two
PageChunkSize == 4
PageOverlap == 1

Range(s) == {s[i] : i \in DOMAIN s}

Min(a, b) == IF a < b THEN a ELSE b

(***************************************************************************)
(* File names, as sequences of code points: "a", "ab", "b".  Python        *)
(* compares strings code point by code point.                              *)
(***************************************************************************)
Filenames == {<<97>>, <<97, 98>>, <<98>>}

StrLess(a, b) ==
    \E k \in 1..(Min(Len(a), Len(b)) + 1) :
        /\ \A j \in 1..(k - 1) : a[j] = b[j]
        /\ \/ k = Len(a) + 1 /\ k <= Len(b)
           \/ k <= Len(a) /\ k <= Len(b) /\ a[k] < b[k]

RECURSIVE sorted(_)
sorted(S) ==
    IF S = {} THEN <<>>
    ELSE LET m == CHOOSE x \in S : \A y \in S : x = y \/ StrLess(x, y)
         IN  <<m>> \o sorted(S \ {m})

(***************************************************************************)
(* The chunk lists the callers pass to add_documents: the records          *)
(* process_pdf builds, 'text' and 'metadata' with source, page and chunk.  *)
(***************************************************************************)
TextOf(i) == IF i = 1 THEN "alpha" ELSE IF i = 2 THEN "beta" ELSE "gamma"

ChunkOf(f, i) ==
    [text |-> TextOf(i), metadata |-> [source |-> f, page |-> 1, chunk |-> i - 1]]

ChunksOf(f, n) == [i \in 1..n |-> ChunkOf(f, i)]

ChunkLists ==
    {ChunksOf(f, n) : f \in Filenames, n \in 0..MaxBatch}
    \cup {ChunksOf(f, 1) \o ChunksOf(g, 1) : f \in Filenames, g \in Filenames}

(***************************************************************************)
(* vector_store.py                                                         *)
(***************************************************************************)
\* uuid.uuid4(): n identifiers that no stored row has
uuid4(coll, n) ==
    LET used == {coll[i].id : i \in DOMAIN coll}
        free == (1..(Len(coll) + n)) \ used
        RECURSIVE take(_, _)
        take(S, k) == IF k = 0 THEN <<>>
                      ELSE LET m == CHOOSE x \in S : \A y \in S : x <= y
                           IN  <<m>> \o take(S \ {m}, k - 1)
    IN  take(free, n)

\* collection.add(ids, documents, metadatas)
collection_add(coll, ids, documents, metadatas) ==
    coll \o [i \in 1..Len(ids) |->
                [id |-> ids[i], document |-> documents[i], metadata |-> metadatas[i]]]

\* collection.delete(ids)
collection_delete(coll, ids) == SelectSeq(coll, LAMBDA row : row.id \notin Range(ids))

add_documents_drops_last(coll, chunklist) ==
    IF Len(chunklist) <= 1 THEN coll
    ELSE collection_add(coll, uuid4(coll, Len(chunklist) - 1),
                        [i \in 1..(Len(chunklist) - 1) |-> chunklist[i].text],
                        [i \in 1..(Len(chunklist) - 1) |-> chunklist[i].metadata])

add_documents(coll, chunklist) ==
    IF chunklist = <<>> THEN coll
    ELSE LET ids == uuid4(coll, Len(chunklist))
             documents == [i \in 1..Len(chunklist) |-> chunklist[i].text]
             metadatas == [i \in 1..Len(chunklist) |-> chunklist[i].metadata]
         IN  collection_add(coll, ids, documents, metadatas)

get_collection_count(coll) == Len(coll)

get_indexed_documents_unsorted(coll) ==
    LET RECURSIVE firsts(_, _)
        firsts(i, seen) ==
            IF i > Len(coll) THEN <<>>
            ELSE IF coll[i].metadata.source \in seen THEN firsts(i + 1, seen)
            ELSE <<coll[i].metadata.source>>
                     \o firsts(i + 1, seen \cup {coll[i].metadata.source})
    IN  firsts(1, {})

get_indexed_documents(coll) ==
    LET sources == {coll[i].metadata.source :
                       i \in {j \in DOMAIN coll : "source" \in DOMAIN coll[j].metadata}}
    IN  sorted(sources)

is_document_indexed_never(coll, filename) == FALSE

is_document_indexed(coll, filename) ==
    LET indexed_docs == get_indexed_documents(coll)
    IN  \E i \in DOMAIN indexed_docs : indexed_docs[i] = filename

delete_document_first_only(coll, filename) ==
    LET hits == SelectSeq(coll, LAMBDA row : row.metadata.source = filename)
        ids_to_delete == IF hits = <<>> THEN <<>> ELSE <<hits[1].id>>
    IN  [collection |-> collection_delete(coll, ids_to_delete),
         ret |-> Len(ids_to_delete)]

delete_document_unguarded(coll, filename) ==
    LET hits == SelectSeq(coll, LAMBDA row : row.metadata.source = filename)
        ids_to_delete == [i \in 1..Len(hits) |-> hits[i].id]
    IN  [collection |-> IF ids_to_delete # <<>>
                        THEN collection_delete(coll, ids_to_delete)
                        ELSE <<>>,
         ret |-> Len(ids_to_delete)]

delete_document(coll, filename) ==
    LET hits == SelectSeq(coll, LAMBDA row : row.metadata.source = filename)
        ids_to_delete == [i \in 1..Len(hits) |-> hits[i].id]
    IN  [collection |-> IF ids_to_delete # <<>>
                        THEN collection_delete(coll, ids_to_delete)
                        ELSE coll,
         ret |-> Len(ids_to_delete)]

\* delete_collection, then get_or_create_collection
clear(coll) == <<>>

\* collection.query: the rows ranked by similarity to the query.  The ranking is
\* the embedding model's; any order of any min(n_results, count) rows is allowed.
Rankings(coll, n_results) ==
    LET k == Min(n_results, Len(coll))
    IN  {r \in [1..k -> DOMAIN coll] : \A i, j \in 1..k : i # j => r[i] # r[j]}

collection_query(coll, rank) ==
    [documents |-> <<[i \in DOMAIN rank |-> coll[rank[i]].document]>>,
     metadatas |-> <<[i \in DOMAIN rank |-> coll[rank[i]].metadata]>>]

search(coll, rank) ==
    LET results == collection_query(coll, rank)
        documents == IF results.documents # <<>> THEN results.documents[1] ELSE <<>>
        metadatas == IF results.metadatas # <<>> THEN results.metadatas[1] ELSE <<>>
    IN  [documents |-> documents, metadatas |-> metadatas]

NoLast == [op |-> "none", filename |-> <<>>, sources |-> {}, ret |-> 0]

SourcesOf(chunklist) == {chunklist[i].metadata.source : i \in DOMAIN chunklist}

(***************************************************************************)
(* chat_engine.py                                                          *)
(***************************************************************************)
NoDocumentsMessage ==
    "I don't have any documents to reference. Please upload some documents first."

Queries == {"what is this about?"}

NResults == {1, 5}

\* chat_history: None, or a list of {"role", "content"} messages.  A content is
\* the sequence of the pieces its text is made of.
NoHistory == [none |-> TRUE, messages |-> <<>>]

History(msgs) == [none |-> FALSE, messages |-> msgs]

Msg(role, content) == [role |-> role, content |-> content]

\* the conversations of up to MaxHistory messages, user and assistant in turn
MessageTexts == <<"m1", "m2", "m3", "m4", "m5", "m6">>

Conversation(n) ==
    [i \in 1..n |-> Msg(IF i % 2 = 1 THEN "user" ELSE "assistant", <<MessageTexts[i]>>)]

Conversations == {NoHistory} \cup {History(Conversation(n)) : n \in 0..MaxHistory}

Histories ==
    {NoHistory,
     History(<<>>),
     History(<<Msg("user", <<"m1">>), Msg("assistant", <<"m2">>),
               Msg("user", <<"m3">>), Msg("assistant", <<"m4">>)>>)}

\* the answers of the generation service to the POST request: an exception of the
\* requests library (named by the classes it is an instance of), or a response
\* with a status code and a body
Exc(classes, msg) == [kind |-> "exception", classes |-> classes, msg |-> msg]

Response(status, body) == [kind |-> "response", status |-> status, body |-> body]

JsonObject(has_response, response) ==
    [object |-> TRUE, has_response |-> has_response, response |-> response]

JsonList == [object |-> FALSE, has_response |-> FALSE, response |-> ""]

NoOutcome == [kind |-> "none"]

HttpOutcomes ==
    {Response(200, JsonObject(TRUE, "generated answer")),
     Response(200, JsonObject(FALSE, "")),
     Response(200, JsonList),
     Response(500, JsonObject(FALSE, "")),
     Exc({"ConnectionError", "RequestException"}, "connection refused"),
     Exc({"Timeout", "RequestException"}, "read timed out"),
     Exc({"ConnectionError", "Timeout", "RequestException"}, "connect timed out"),
     Exc({"RequestException"}, "too many redirects")}

Returned(value) == [raised |-> FALSE, value |-> value]

Raised(msg) == [raised |-> TRUE, value |-> msg]

\* str.join
RECURSIVE join(_, _)
join(sep, parts) ==
    IF parts = <<>> THEN <<>>
    ELSE IF Len(parts) = 1 THEN <<parts[1]>>
    ELSE <<parts[1], sep>> \o join(sep, Tail(parts))

\* str.upper, on the roles
upper(role) ==
    CASE role = "user" -> "USER"
      [] role = "assistant" -> "ASSISTANT"
      [] OTHER -> role

first_n(s, n) == IF Len(s) <= n THEN s ELSE SubSeq(s, 1, n)

\* list[-n:]
last_n(s, n) == IF Len(s) <= n THEN s ELSE SubSeq(s, Len(s) - n + 1, Len(s))

\* the f-string pieces of the system message, one per line of the source
system_msg_lines ==
    <<"You are a helpful AI assistant that answers questions based on provided documents.",
      "",
      "IMPORTANT RULES:",
      "- Answer questions using ONLY the information from the provided documents",
      "- Do NOT mention document numbers (like \"Document 1\", \"Document 2\", etc.) in your response",
      "- Answer naturally as if the information is from a single coherent source",
      "- For summarization questions (\"what is this about?\", \"summarize\"), provide a comprehensive overview of the content",
      "- If the answer is not in the documents, say \"I cannot find that information in the uploaded documents\"",
      "- Be concise but thorough",
      "- If asked about something not in the documents, politely decline and explain what information IS available">>

system_msg == join("\n", system_msg_lines)

RECURSIVE history_lines(_)
history_lines(msgs) ==
    IF msgs = <<>> THEN <<>>
    ELSE <<"\n", upper(msgs[1].role), ": ">> \o msgs[1].content
             \o history_lines(Tail(msgs))

\* the prompt, as the sequence of the pieces the f-string concatenates
build_prompt(query, context, chat_history) ==
    LET history_text ==
            IF ~chat_history.none /\ chat_history.messages # <<>>
            THEN history_lines(last_n(chat_history.messages, 3))
            ELSE <<>>
    IN  system_msg \o <<"\n\nPREVIOUS CONVERSATION:\n">>
        \o (IF history_text # <<>> THEN history_text ELSE <<"(No previous conversation)">>)
        \o <<"\n\nRELEVANT DOCUMENTS:\n">> \o context
        \o <<"\n\nUSER QUESTION: ", query, "\n\nASSISTANT ANSWER:">>

call_ollama_without_timeout_clause(outcome) ==
    IF outcome.kind = "exception" THEN
        IF "ConnectionError" \in outcome.classes
        THEN Raised(<<"Cannot connect to Ollama. Make sure it's running with: ollama serve">>)
        ELSE Raised(<<"Error calling Ollama: ", outcome.msg>>)
    ELSE IF outcome.status >= 400
    THEN Raised(<<"Error calling Ollama: ", "Server Error">>)
    ELSE IF ~outcome.body.object
    THEN Raised(<<"'list' object has no attribute 'get'">>)
    ELSE IF outcome.body.has_response
    THEN Returned(<<outcome.body.response>>)
    ELSE Returned(<<"No response generated">>)

\* requests.post, raise_for_status, response.json(), result.get, and the three
\* except clauses in their order
call_ollama(outcome) ==
    IF outcome.kind = "exception" THEN
        IF "ConnectionError" \in outcome.classes
        THEN Raised(<<"Cannot connect to Ollama. Make sure it's running with: ollama serve">>)
        ELSE IF "Timeout" \in outcome.classes
        THEN Raised(<<"Ollama request timed out. Try a smaller model or simpler question.">>)
        ELSE Raised(<<"Error calling Ollama: ", outcome.msg>>)
    ELSE IF outcome.status >= 400
    THEN Raised(<<"Error calling Ollama: ", "Server Error">>)
    ELSE IF ~outcome.body.object
    THEN Raised(<<"'list' object has no attribute 'get'">>)
    ELSE IF outcome.body.has_response
    THEN Returned(<<outcome.body.response>>)
    ELSE Returned(<<"No response generated">>)

NoResult == [raised |-> FALSE, response |-> <<>>, sources |-> <<>>]

\* if not relevant_docs
no_documents_never(relevant_docs) == FALSE

no_documents(relevant_docs) == relevant_docs = <<>>

\* Step 4 and 5: the try around _call_ollama and the two returns
answer_propagates(generated, metadatas) ==
    IF generated.raised
    THEN [raised |-> TRUE, response |-> generated.value, sources |-> <<>>]
    ELSE [raised |-> FALSE, response |-> generated.value, sources |-> metadatas]

answer_drops_sources(generated, metadatas) ==
    IF generated.raised
    THEN [raised |-> FALSE,
          response |-> <<"Error getting response from Ollama: ">> \o generated.value,
          sources |-> <<>>]
    ELSE [raised |-> FALSE, response |-> generated.value,
          sources |-> IF metadatas = <<>> THEN <<>> ELSE Tail(metadatas)]

answer(generated, metadatas) ==
    IF generated.raised
    THEN [raised |-> FALSE,
          response |-> <<"Error getting response from Ollama: ">> \o generated.value,
          sources |-> <<>>]
    ELSE [raised |-> FALSE, response |-> generated.value, sources |-> metadatas]

NoLocals ==
    [query |-> "", chat_history |-> NoHistory, n_results |-> 0,
     relevant_docs |-> <<>>, metadatas |-> <<>>, prompt |-> <<>>, http |-> NoOutcome]

(***************************************************************************)
(* document_processor.py: split_text                                       *)
(***************************************************************************)
Alphabet == {"a", ".", "?", "!", " ", "\n"}

Whitespace == {" ", "\n"}

TextsUpTo(n) == UNION {[1..k -> Alphabet] : k \in 0..n}

\* a slice bound as Python normalises it: a negative bound counts from the end
Index(i, length) ==
    IF i < 0 THEN (IF i + length < 0 THEN 0 ELSE i + length)
    ELSE IF i > length THEN length ELSE i

\* text[lo:hi]
Slice(s, lo, hi) ==
    LET a == Index(lo, Len(s))
        b == Index(hi, Len(s))
    IN  IF a >= b THEN <<>> ELSE SubSeq(s, a + 1, b)

\* text.rfind(sub, lo, hi): the highest position of sub inside text[lo:hi], or -1
rfind(s, sub, lo, hi) ==
    LET a == Index(lo, Len(s))
        b == Index(hi, Len(s))
        hits == {p \in a..(b - Len(sub)) :
                    \A k \in 1..Len(sub) : s[p + k] = sub[k]}
    IN  IF hits = {} THEN -1
        ELSE CHOOSE p \in hits : \A q \in hits : q <= p

\* str.strip()
RECURSIVE lstrip(_)
lstrip(s) ==
    IF s # <<>> /\ s[1] \in Whitespace THEN lstrip(Tail(s)) ELSE s

RECURSIVE rstrip(_)
rstrip(s) ==
    IF s # <<>> /\ s[Len(s)] \in Whitespace THEN rstrip(SubSeq(s, 1, Len(s) - 1)) ELSE s

strip_leading_only(s) == lstrip(s)

strip(s) == rstrip(lstrip(s))

\* the sentence breaks, in the order the for loop tries them
SentenceBreaks == <<<<".", " ">>, <<"?", " ">>, <<"!", " ">>, <<"\n">>>>

\* the for loop: the last occurrence of the first kind of break that occurs
RECURSIVE sentence_break(_, _, _, _)
sentence_break(s, lo, hi, i) ==
    IF i > Len(SentenceBreaks) THEN -1
    ELSE LET last_break == rfind(s, SentenceBreaks[i], lo, hi)
         IN  IF last_break # -1 THEN last_break
             ELSE sentence_break(s, lo, hi, i + 1)

chunk_end_one_past(s, cursor, size) ==
    LET proposed == cursor + size + 1
    IN  IF proposed < Len(s) THEN
            LET last_break == sentence_break(s, cursor, proposed, 1)
                last_space == rfind(s, <<" ">>, cursor, proposed)
            IN  IF last_break # -1 THEN last_break + 1
                ELSE IF last_space # -1 THEN last_space
                ELSE proposed
        ELSE proposed

\* lines 69-83: the end of the chunk that starts at the cursor
chunk_end(s, cursor, size) ==
    LET proposed == cursor + size
    IN  IF proposed < Len(s) THEN
            LET last_break == sentence_break(s, cursor, proposed, 1)
                last_space == rfind(s, <<" ">>, cursor, proposed)
            IN  IF last_break # -1 THEN last_break + 1
                ELSE IF last_space # -1 THEN last_space
                ELSE proposed
        ELSE proposed

\* line 91: the next cursor
next_start(s, chunk_stop, ov) ==
    IF chunk_stop < Len(s) THEN chunk_stop - ov ELSE Len(s)

\* lines 67-93: the loop from a cursor on.  The cursor is all an iteration hands
\* to the next one, so the loop never ends once a cursor comes back.
RECURSIVE split_loop(_, _, _, _, _)
split_loop(s, size, ov, cursor, seen) ==
    IF cursor >= Len(s) THEN [returns |-> TRUE, chunks |-> <<>>]
    ELSE IF cursor \in seen THEN [returns |-> FALSE, chunks |-> <<>>]
    ELSE LET stop == chunk_end(s, cursor, size)
             chunk == strip(Slice(s, cursor, stop))
             rest == split_loop(s, size, ov, next_start(s, stop, ov), seen \cup {cursor})
         IN  [returns |-> rest.returns,
              chunks |-> IF chunk # <<>> THEN <<chunk>> \o rest.chunks ELSE rest.chunks]

\* split_text(text, chunk_size, overlap): the chunks it returns, if it returns
split_text(s, size, ov) == split_loop(s, size, ov, 0, {})

(***************************************************************************)
(* document_processor.py: process_pdf                                      *)
(***************************************************************************)
\* a PDF file: one that PdfReader or extract_text fails on, or the texts that
\* extract_text gives for its pages
Unreadable(error) == [readable |-> FALSE, error |-> error, pages |-> <<>>]

PdfOf(pages) == [readable |-> TRUE, error |-> "", pages |-> pages]

Chars(n) == [i \in 1..n |-> "a"]

BlankPage == <<" ", "\n">>

OneWordPage == <<" ", "a", " ">>

\* a page on which split_text(chunk_size = PageChunkSize, overlap = PageOverlap)
\* never returns: the break after "a." is found again and again
LoopingPage == <<"a", ".", " ", "a", "a", "a", "a">>

PageTexts == {<<>>, BlankPage, OneWordPage, Chars(7), Chars(10), LoopingPage}

Pdfs ==
    {Unreadable("EOF marker not found")}
    \cup {PdfOf(pages) : pages \in UNION {[1..n -> PageTexts] : n \in 0..MaxPages}}

\* lines 35-43: the records of the chunks of one page
page_records_one_based(filename, page_num, page_chunks) ==
    [i \in 1..Len(page_chunks) |->
        [text |-> page_chunks[i],
         metadata |-> [source |-> filename, page |-> page_num, chunk |-> i]]]

page_records(filename, page_num, page_chunks) ==
    [i \in 1..Len(page_chunks) |->
        [text |-> page_chunks[i],
         metadata |-> [source |-> filename, page |-> page_num, chunk |-> i - 1]]]

\* lines 27-43: the loop over the pages, from page page_num on
RECURSIVE page_loop(_, _, _)
page_loop(pages, filename, page_num) ==
    IF page_num > Len(pages) THEN [returns |-> TRUE, chunks |-> <<>>]
    ELSE LET page_text == pages[page_num]
             split == IF strip(page_text) # <<>>
                      THEN split_text(page_text, PageChunkSize, PageOverlap)
                      ELSE [returns |-> TRUE, chunks |-> <<>>]
         IN  IF ~split.returns THEN [returns |-> FALSE, chunks |-> <<>>]
             ELSE LET rest == page_loop(pages, filename, page_num + 1)
                  IN  [returns |-> rest.returns,
                       chunks |-> page_records(filename, page_num, split.chunks)
                                     \o rest.chunks]

\* process_pdf(pdf_path, filename): it returns the records, raises the wrapped
\* exception, or hangs in split_text
process_pdf(pdf, filename) ==
    IF ~pdf.readable
    THEN [kind |-> "raised", chunks |-> <<>>,
          msg |-> <<"Error processing PDF ", filename, ": ", pdf.error>>]
    ELSE LET r == page_loop(pdf.pages, filename, 1)
         IN  IF r.returns THEN [kind |-> "returned", chunks |-> r.chunks, msg |-> <<>>]
             ELSE [kind |-> "hangs", chunks |-> <<>>, msg |-> <<>>]

NoPdfResult == [kind |-> "none", chunks |-> <<>>, msg |-> <<>>]

NoPdfCall ==
    [pc |-> "idle", filename |-> <<>>, pdf |-> PdfOf(<<>>), result |-> NoPdfResult]

PdfCall(pdf, filename) ==
    [pc |-> "called", filename |-> filename, pdf |-> pdf, result |-> NoPdfResult]

(***************************************************************************)
(* preprocess_documents.py                                                 *)
(***************************************************************************)
\* the PDF files the documents folder may hold
FolderPdfs ==
    {Unreadable("EOF marker not found"),
     PdfOf(<<BlankPage>>),
     PdfOf(<<BlankPage, Chars(7)>>),
     PdfOf(<<OneWordPage>>),
     PdfOf(<<LoopingPage>>)}

Folders ==
    UNION {[names -> FolderPdfs] :
              names \in {S \in SUBSET Filenames : Cardinality(S) <= MaxFiles}}

Orderings(S) ==
    {o \in [1..Cardinality(S) -> S] : \A i, j \in DOMAIN o : i # j => o[i] # o[j]}

\* get_pdf_files: glob("*.pdf") then glob("*.PDF"), each in the order the file
\* system lists the files.  Where file names are matched without regard to case
\* both patterns match every PDF, and each file is listed twice.
get_pdf_files(dir) ==
    Orderings(DOMAIN dir)
    \cup {o1 \o o2 : o1 \in Orderings(DOMAIN dir), o2 \in Orderings(DOMAIN dir)}

\* main.py: no request was answered yet
NoReply ==
    [request |-> 0, status |-> 0, detail |-> <<>>, filename |-> <<>>,
     chunks_added |-> 0, pages_processed |-> 0]

\* the callers of is_document_indexed and add_documents that run side by side:
\* two processes of preprocess_documents.py, or one and the upload endpoint
Workers == {"first", "second"}

\* a caller before it starts: the files it lists, the position in the list, the
\* file it works on and the chunks process_pdf gave for it
NoWorker == [pc |-> "idle", pdf_files |-> <<>>, next |-> 1, filename |-> <<>>, chunks |-> <<>>]

NoWorkers == [w \in Workers |-> NoWorker]

NoRun ==
    [pc |-> "idle", number |-> 0, pdf_files |-> <<>>, next |-> 1,
     new_documents |-> <<>>, skipped_documents |-> <<>>, failed_documents |-> <<>>,
     total_chunks |-> 0]

(***************************************************************************)
(* The operations of the vector store.  The application is single-threaded *)
(* and synchronous: an operation starts when no other is in progress.      *)
(***************************************************************************)
AddDocuments(chunklist) ==
    /\ pc = "idle"
    /\ Len(collection) + Len(chunklist) <= MaxStored
    /\ collection' = add_documents(collection, chunklist)
    /\ last' = [op |-> "add_documents", filename |-> <<>>,
                sources |-> SourcesOf(chunklist), ret |-> 0]
    /\ UNCHANGED <<chatVars, splitVars, pdfVars, ingestVars, uiVars, apiVars, workerVars>>

DeleteDocument(filename) ==
    /\ pc = "idle"
    /\ LET r == delete_document(collection, filename)
       IN  /\ collection' = r.collection
           /\ last' = [op |-> "delete_document", filename |-> filename,
                       sources |-> {}, ret |-> r.ret]
    /\ UNCHANGED <<chatVars, splitVars, pdfVars, ingestVars, uiVars, apiVars, workerVars>>

Clear ==
    /\ pc = "idle"
    /\ collection' = clear(collection)
    /\ last' = [op |-> "clear", filename |-> <<>>, sources |-> {}, ret |-> 0]
    /\ UNCHANGED <<chatVars, splitVars, pdfVars, ingestVars, uiVars, apiVars, workerVars>>

(***************************************************************************)
(* ChatEngine.get_response, step by step.                                  *)
(***************************************************************************)
\* Step 1: the call and its retrieval search
get_response_search(query, chat_history, n_results, rank) ==
    /\ pc = "idle"
    /\ LET found == search(collection, rank)
       IN  locals' = [query |-> query, chat_history |-> chat_history,
                      n_results |-> n_results,
                      relevant_docs |-> found.documents,
                      metadatas |-> found.metadatas,
                      prompt |-> <<>>, http |-> NoOutcome]
    /\ pc' = "searched"
    /\ requests' = 0
    /\ searches' = 1
    /\ result' = NoResult
    /\ last' = [op |-> "get_response", filename |-> <<>>, sources |-> {}, ret |-> 0]
    /\ UNCHANGED <<collection, splitVars, pdfVars, ingestVars, apiVars, workerVars>>

GetResponse(query, chat_history, n_results, rank) ==
    /\ get_response_search(query, chat_history, n_results, rank)
    /\ UNCHANGED uiVars

\* the early return when nothing was retrieved
ReturnNoDocuments ==
    /\ pc = "searched"
    /\ no_documents(locals.relevant_docs)
    /\ result' = [raised |-> FALSE, response |-> <<NoDocumentsMessage>>, sources |-> <<>>]
    /\ pc' = "returned"
    /\ UNCHANGED <<storeVars, locals, requests, searches, splitVars, pdfVars, ingestVars, uiVars, apiVars, workerVars>>

\* Steps 2 and 3: the context and the prompt
BuildPrompt ==
    /\ pc = "searched"
    /\ ~no_documents(locals.relevant_docs)
    /\ LET context == join("\n\n---\n\n", locals.relevant_docs)
       IN  locals' = [locals EXCEPT
                        !.prompt = build_prompt(locals.query, context, locals.chat_history)]
    /\ pc' = "prompted"
    /\ UNCHANGED <<storeVars, requests, searches, result, splitVars, pdfVars, ingestVars, uiVars, apiVars, workerVars>>

CallOllama_retries(outcome) ==
    /\ pc = "prompted"
    /\ requests' = requests + 1
    /\ locals' = [locals EXCEPT !.http = outcome]
    /\ IF call_ollama(outcome).raised /\ requests < 1
       THEN pc' = "prompted" /\ result' = result
       ELSE pc' = "returned" /\ result' = answer(call_ollama(outcome), locals.metadatas)
    /\ UNCHANGED <<storeVars, searches, splitVars, pdfVars, ingestVars, uiVars, apiVars, workerVars>>

\* Steps 4 and 5: the request to the generation service and the return
CallOllama(outcome) ==
    /\ pc = "prompted"
    /\ requests' = requests + 1
    /\ locals' = [locals EXCEPT !.http = outcome]
    /\ result' = answer(call_ollama(outcome), locals.metadatas)
    /\ pc' = "returned"
    /\ UNCHANGED <<storeVars, searches, splitVars, pdfVars, ingestVars, uiVars, apiVars, workerVars>>

\* the call is over: its locals are gone
get_response_return ==
    /\ pc = "returned"
    /\ pc' = "idle"
    /\ locals' = NoLocals
    /\ requests' = 0
    /\ searches' = 0
    /\ result' = NoResult
    /\ UNCHANGED <<storeVars, splitVars, pdfVars, ingestVars, apiVars, workerVars>>

\* the caller takes the result
Finish ==
    /\ get_response_return
    /\ UNCHANGED uiVars

SplitIdle ==
    /\ text = <<>>
    /\ chunk_size = 1
    /\ overlap = 0
    /\ start = 0
    /\ end = 0
    /\ chunks = <<>>
    /\ ranges = <<>>
    /\ split_pc = "idle"

ChatIdle ==
    /\ pc = "idle"
    /\ locals = NoLocals
    /\ requests = 0
    /\ searches = 0
    /\ result = NoResult

PdfIdle == pdf_call = NoPdfCall

RunIdle ==
    /\ folder = <<>>
    /\ run = NoRun
    /\ stores = <<>>

IngestIdle == PdfIdle /\ RunIdle

UiIdle == messages = <<>>

ApiIdle == reply = NoReply

WorkersIdle == workers = NoWorkers

Init ==
    /\ collection = <<>>
    /\ last = NoLast
    /\ ChatIdle
    /\ SplitIdle
    /\ IngestIdle
    /\ UiIdle
    /\ ApiIdle
    /\ WorkersIdle

Next ==
    \/ \E chunklist \in ChunkLists : AddDocuments(chunklist)
    \/ \E filename \in Filenames : DeleteDocument(filename)
    \/ Clear
    \/ \E query \in Queries, chat_history \in Histories, n_results \in NResults :
          \E rank \in Rankings(collection, n_results) :
              GetResponse(query, chat_history, n_results, rank)
    \/ ReturnNoDocuments
    \/ BuildPrompt
    \/ \E outcome \in HttpOutcomes : CallOllama(outcome)
    \/ Finish

Spec == Init /\ [][Next]_vars

(***************************************************************************)
(* split_text, step by step.                                               *)
(***************************************************************************)
StoreIdle ==
    /\ collection = <<>>
    /\ last = NoLast
    /\ ChatIdle
    /\ IngestIdle
    /\ UiIdle
    /\ ApiIdle
    /\ WorkersIdle

\* a call split_text(text, chunk_size, overlap), at line 67
SplitCall(texts, sizes) ==
    /\ text \in texts
    /\ chunk_size \in sizes
    /\ overlap \in 0..chunk_size
    /\ start = 0
    /\ end = 0
    /\ chunks = <<>>
    /\ ranges = <<>>
    /\ split_pc = "loop"

\* lines 67-83: the loop test, and the end of the chunk
SplitCut ==
    /\ split_pc = "loop"
    /\ start < Len(text)
    /\ end' = chunk_end(text, start, chunk_size)
    /\ split_pc' = "cut"
    /\ UNCHANGED <<text, chunk_size, overlap, start, chunks, ranges>>
    /\ UNCHANGED <<storeVars, chatVars, pdfVars, ingestVars, uiVars, apiVars, workerVars>>

\* lines 85-91: the chunk is appended when it is not empty, the cursor moves.
\* The output list holds MaxChunks chunks at most.
SplitEmit ==
    /\ split_pc = "cut"
    /\ LET chunk == strip(Slice(text, start, end))
           keep == chunk # <<>> /\ Len(chunks) < MaxChunks
       IN  /\ chunks' = IF keep THEN Append(chunks, chunk) ELSE chunks
           /\ ranges' = IF keep
                        THEN Append(ranges, <<Index(start, Len(text)), Index(end, Len(text))>>)
                        ELSE ranges
    /\ start' = next_start(text, end, overlap)
    /\ split_pc' = "loop"
    /\ UNCHANGED <<text, chunk_size, overlap, end>>
    /\ UNCHANGED <<storeVars, chatVars, pdfVars, ingestVars, uiVars, apiVars, workerVars>>

\* line 93: the loop test fails, return chunks
SplitReturn ==
    /\ split_pc = "loop"
    /\ start >= Len(text)
    /\ split_pc' = "done"
    /\ UNCHANGED <<text, chunk_size, overlap, start, end, chunks, ranges>>
    /\ UNCHANGED <<storeVars, chatVars, pdfVars, ingestVars, uiVars, apiVars, workerVars>>

SplitNext == SplitCut \/ SplitEmit \/ SplitReturn

SplitInit == StoreIdle /\ SplitCall(TextsUpTo(MaxTextLen), 1..MaxChunkSize)

SplitSpec == SplitInit /\ [][SplitNext]_vars

\* the loop is sequential code: a step that can be taken is taken
SplitFairSpec == SplitSpec /\ WF_vars(SplitNext)

SplitWideInit == StoreIdle /\ SplitCall(TextsUpTo(WideTextLen), 1..WideChunkSize)

SplitWideSpec == SplitWideInit /\ [][SplitNext]_vars

(***************************************************************************)
(* The claims about get_response.                                          *)
(***************************************************************************)
InCall == pc \in {"searched", "prompted", "returned"}

\* the generation call failed: the request raised, the status was an error,
\* or the body could not be read as an object
GenerationFailed(o) ==
    \/ o.kind = "exception"
    \/ o.kind = "response" /\ (o.status >= 400 \/ ~o.body.object)

GenerationSucceeded(o) == o.kind = "response" /\ o.status < 400 /\ o.body.object

\* C1: when the retrieval search returns no document, get_response returns the
\* fixed no-documents message with an empty source list, and at no point of that
\* call is a request sent to the generation service.
C1_NoDocumentsShortCircuit ==
    (InCall /\ locals.relevant_docs = <<>>) =>
        /\ requests = 0
        /\ pc # "prompted"
        /\ pc = "returned" =>
              result = [raised |-> FALSE, response |-> <<NoDocumentsMessage>>,
                        sources |-> <<>>]

C1_Witness ==
    /\ pc = "returned"
    /\ locals.relevant_docs = <<>>
    /\ locals.n_results = 5
    /\ ~locals.chat_history.none
    /\ result.response = <<NoDocumentsMessage>>

\* C2: when retrieval returned at least one chunk and the generation call fails,
\* get_response does not raise: it returns a response that describes the error,
\* with an empty source list.
C2_GenerationFailureIsDegradedAnswer ==
    (pc = "returned" /\ locals.relevant_docs # <<>> /\ GenerationFailed(locals.http)) =>
        /\ ~result.raised
        /\ result.sources = <<>>
        /\ Len(result.response) >= 2
        /\ result.response[1] = "Error getting response from Ollama: "

C2_Witness ==
    /\ pc = "returned"
    /\ locals.relevant_docs # <<>>
    /\ locals.http.kind = "exception"
    /\ "Timeout" \in locals.http.classes
    /\ ~result.raised
    /\ requests = 1

\* C3: when retrieval returned at least one chunk and generation succeeds,
\* get_response returns the generated text with exactly the metadata sequence of
\* the search: one entry per retrieved chunk, in rank order, each the stored
\* metadata of the row whose text was retrieved at that rank.
C3_SuccessReturnsSearchMetadata ==
    (pc = "returned" /\ locals.relevant_docs # <<>> /\ GenerationSucceeded(locals.http)) =>
        /\ ~result.raised
        /\ result.response =
              <<IF locals.http.body.has_response THEN locals.http.body.response
                ELSE "No response generated">>
        /\ result.sources = locals.metadatas
        /\ Len(result.sources) = Len(locals.relevant_docs)
        /\ Len(result.sources) = Min(locals.n_results, Len(collection))
        /\ \A i \in DOMAIN result.sources :
              \E j \in DOMAIN collection :
                  /\ collection[j].document = locals.relevant_docs[i]
                  /\ collection[j].metadata = result.sources[i]

C3_Witness ==
    /\ pc = "returned"
    /\ Len(locals.relevant_docs) = 2
    /\ GenerationSucceeded(locals.http)
    /\ locals.http.body.has_response
    /\ result.sources = locals.metadatas
    /\ result.sources[1].source # result.sources[2].source

(***************************************************************************)
(* The claims about the vector store.                                      *)
(***************************************************************************)
\* a file name no chunk list carries
UnknownFilename == <<99>>

AllFilenames == Filenames \cup {UnknownFilename}

HasChunkOf(coll, f) == \E i \in DOMAIN coll : coll[i].metadata.source = f

RowsOf(coll, f) == SelectSeq(coll, LAMBDA row : row.metadata.source = f)

RowsNotOf(coll, f) == SelectSeq(coll, LAMBDA row : row.metadata.source # f)

\* C4: is_document_indexed(f) is true right after add_documents returns from a
\* call whose chunk list has a chunk with source f, and false right after
\* delete_document(f) returns.
C4_IndexedAfterAddNotAfterDelete ==
    \A f \in AllFilenames :
        /\ (last.op = "add_documents" /\ f \in last.sources) =>
              is_document_indexed(collection, f)
        /\ (last.op = "delete_document" /\ last.filename = f) =>
              ~is_document_indexed(collection, f)

C4_Witness ==
    /\ last.op = "delete_document"
    /\ last.ret = 2
    /\ ~is_document_indexed(collection, last.filename)

\* C5: delete_document(f) for a file name with no stored chunk returns 0 and
\* leaves the stored chunks, the chunk count and the list of indexed file names
\* as they were.
C5_DeleteOfUnindexedChangesNothing ==
    [][\A f \in AllFilenames :
          (last'.op = "delete_document" /\ last'.filename = f /\ pc = "idle"
              /\ ~HasChunkOf(collection, f)) =>
              /\ last'.ret = 0
              /\ collection' = collection
              /\ get_collection_count(collection') = get_collection_count(collection)
              /\ get_indexed_documents(collection') = get_indexed_documents(collection)]_vars

C5_Witness ==
    /\ last.op = "delete_document"
    /\ last.ret = 0
    /\ ~HasChunkOf(collection, last.filename)
    /\ get_collection_count(collection) = 2

\* C6: delete_document(f) removes exactly the stored chunks with source f, keeps
\* every other chunk, and returns the number of chunks it removed, which is the
\* drop of the chunk count.
C6_DeleteRemovesExactlyTheSource ==
    [][\A f \in AllFilenames :
          (last'.op = "delete_document" /\ last'.filename = f /\ pc = "idle") =>
              /\ collection' = RowsNotOf(collection, f)
              /\ ~HasChunkOf(collection', f)
              /\ last'.ret = Len(RowsOf(collection, f))
              /\ get_collection_count(collection') =
                    get_collection_count(collection) - last'.ret]_vars

C6_Witness ==
    /\ last.op = "delete_document"
    /\ last.ret = 1
    /\ get_collection_count(collection) = 1
    /\ collection[1].metadata.source # last.filename

\* C7: in every reachable state and for every file name f, is_document_indexed(f)
\* holds iff some stored chunk has source f, iff f is in get_indexed_documents(),
\* and that list holds each distinct source once, in sorted order.
C7_IndexedIffChunkStored ==
    LET docs == get_indexed_documents(collection)
    IN  /\ \A f \in AllFilenames :
              /\ is_document_indexed(collection, f) <=> HasChunkOf(collection, f)
              /\ is_document_indexed(collection, f) <=> f \in Range(docs)
        /\ \A i, j \in DOMAIN docs : i < j => StrLess(docs[i], docs[j])
        /\ Range(docs) = {collection[i].metadata.source : i \in DOMAIN collection}

C7_Witness ==
    /\ get_collection_count(collection) = 2
    /\ collection[1].metadata.source = <<98>>
    /\ get_indexed_documents(collection) = <<<<97, 98>>, <<98>>>>

(***************************************************************************)
(* The claims about split_text.                                            *)
(***************************************************************************)
Precondition == 0 <= overlap /\ overlap < chunk_size

\* C8: with 0 <= overlap < chunk_size split_text terminates: the cursor reaches
\* the end of the text and the function returns.
C8_SplitTextTerminates == Precondition => <>(split_pc = "done")

\* the positions (1-based) of text that lie in the slice of some returned chunk
Covered == {p \in 1..Len(text) : \E i \in DOMAIN ranges : ranges[i][1] < p /\ p <= ranges[i][2]}

\* C9: with overlap < chunk_size, every non-whitespace character of the text lies
\* in the slice of at least one returned chunk, and the chunks are returned in the
\* order of their position in the text.
C9_EveryCharacterCovered ==
    (split_pc = "done" /\ Precondition) =>
        /\ \A p \in 1..Len(text) : text[p] \notin Whitespace => p \in Covered
        /\ \A i, j \in DOMAIN ranges : i < j => ranges[i][1] <= ranges[j][1]

\* the positions (0-based) in the window [cursor, cursor + chunk_size) where one
\* of the four sentence breaks occurs, whole
BreaksInWindow ==
    {p \in 0..(Len(text) - 1) :
        /\ start <= p
        /\ \E i \in DOMAIN SentenceBreaks :
              /\ p + Len(SentenceBreaks[i]) <= start + chunk_size
              /\ p + Len(SentenceBreaks[i]) <= Len(text)
              /\ \A k \in 1..Len(SentenceBreaks[i]) : text[p + k] = SentenceBreaks[i][k]}

\* C10: when cursor + chunk_size is before the end of the text and the window
\* holds a sentence break, the chunk ends just after the right-most sentence
\* break of the window, of whichever kind.
C10_CutAfterRightmostBreak ==
    (split_pc = "cut" /\ start + chunk_size < Len(text) /\ BreaksInWindow # {}) =>
        \A p \in BreaksInWindow : p + 1 <= end /\ end - 1 \in BreaksInWindow

\* the positions (0-based) of the plain spaces in the window
\* [cursor, cursor + chunk_size)
SpacesInWindow ==
    {p \in 0..(Len(text) - 1) : start <= p /\ p < start + chunk_size /\ text[p + 1] = " "}

\* C11: the cut of a chunk that is not the last follows a strict priority: when
\* the window holds a sentence break the chunk ends just after one; otherwise,
\* when it holds a plain space, at the last plain space; at the raw boundary
\* cursor + chunk_size only when the window holds neither.
C11_CutPriority ==
    (split_pc = "cut" /\ Precondition /\ start + chunk_size < Len(text)) =>
        IF BreaksInWindow # {} THEN end - 1 \in BreaksInWindow
        ELSE IF SpacesInWindow # {}
        THEN end \in SpacesInWindow /\ \A p \in SpacesInWindow : p <= end
        ELSE end = start + chunk_size

\* c is s without its leading and trailing whitespace, and is not empty
IsTrimmed(c, s) ==
    \E i, j \in 1..Len(s) :
        /\ i <= j
        /\ c = SubSeq(s, i, j)
        /\ s[i] \notin Whitespace
        /\ s[j] \notin Whitespace
        /\ \A k \in 1..Len(s) : (k < i \/ k > j) => s[k] \in Whitespace

\* C12 as stated: for every non-empty text shorter than chunk_size, and every
\* overlap, split_text returns exactly one chunk, the text without its leading
\* and trailing whitespace.
C12_ShortTextOneChunk ==
    (split_pc = "done" /\ text # <<>> /\ Len(text) < chunk_size) =>
        Len(chunks) = 1 /\ chunks[1] = strip(text)

\* C12, amended: for every text shorter than chunk_size, and every overlap,
\* split_text returns one chunk, the text without its leading and trailing
\* whitespace, when the text has a character that is not whitespace, and no
\* chunk when it has none.
C12_ShortTextOneChunkOrNone ==
    (split_pc = "done" /\ Len(text) < chunk_size) =>
        IF \E p \in 1..Len(text) : text[p] \notin Whitespace
        THEN Len(chunks) = 1 /\ IsTrimmed(chunks[1], text)
        ELSE chunks = <<>>

C12_Witness ==
    /\ split_pc = "done"
    /\ Len(text) < chunk_size
    /\ overlap = chunk_size
    /\ Len(chunks) = 1
    /\ Len(chunks[1]) < Len(text)

\* C13: every chunk that split_text appends is not empty, has no leading and no
\* trailing whitespace, and has chunk_size characters at most, whatever the
\* text, chunk_size and overlap.
C13_ChunksTrimmedAndBounded ==
    \A i \in DOMAIN chunks :
        /\ chunks[i] # <<>>
        /\ chunks[i][1] \notin Whitespace
        /\ chunks[i][Len(chunks[i])] \notin Whitespace
        /\ Len(chunks[i]) <= chunk_size

C13_Witness ==
    /\ split_pc = "done"
    /\ overlap > 0
    /\ chunk_size >= 2
    /\ \E i, j \in DOMAIN chunks :
          /\ i # j
          /\ Len(chunks[i]) = chunk_size
          /\ ranges[j][2] - ranges[j][1] > Len(chunks[j])

(***************************************************************************)
(* process_pdf, call by call.                                              *)
(***************************************************************************)
\* line 45: every page was read and split, return chunks
ProcessPdfReturns ==
    /\ pdf_call.pc = "called"
    /\ LET r == process_pdf(pdf_call.pdf, pdf_call.filename)
       IN  /\ r.kind = "returned"
           /\ pdf_call' = [pdf_call EXCEPT !.pc = "returned", !.result = r]
    /\ UNCHANGED <<storeVars, chatVars, splitVars, ingestVars, uiVars, apiVars, workerVars>>

\* lines 47-48: the exception of the reader, wrapped
ProcessPdfRaises ==
    /\ pdf_call.pc = "called"
    /\ LET r == process_pdf(pdf_call.pdf, pdf_call.filename)
       IN  /\ r.kind = "raised"
           /\ pdf_call' = [pdf_call EXCEPT !.pc = "raised", !.result = r]
    /\ UNCHANGED <<storeVars, chatVars, splitVars, ingestVars, uiVars, apiVars, workerVars>>

PdfInit ==
    /\ collection = <<>>
    /\ last = NoLast
    /\ ChatIdle
    /\ SplitIdle
    /\ RunIdle
    /\ UiIdle
    /\ ApiIdle
    /\ WorkersIdle
    /\ \E pdf \in Pdfs, filename \in Filenames : pdf_call = PdfCall(pdf, filename)

PdfNext == ProcessPdfReturns \/ ProcessPdfRaises

PdfSpec == PdfInit /\ [][PdfNext]_vars

(***************************************************************************)
(* process_documents, run after run over the documents folder.  A run      *)
(* starts when the one before it has ended.                                *)
(***************************************************************************)
\* lines 83-124: the store is opened, the folder is listed
ProcessDocuments(pdf_files) ==
    /\ run.pc \in {"idle", "done"}
    /\ run.number < MaxRuns
    /\ run' = [NoRun EXCEPT !.pc = "loop", !.number = run.number + 1,
                            !.pdf_files = pdf_files]
    /\ UNCHANGED <<storeVars, chatVars, splitVars, pdfVars, folder, stores, uiVars, apiVars, workerVars>>

\* lines 126-135: the file is indexed already
RunSkip ==
    /\ run.pc = "loop"
    /\ run.next <= Len(run.pdf_files)
    /\ LET filename == run.pdf_files[run.next]
       IN  /\ is_document_indexed(collection, filename)
           /\ run' = [run EXCEPT !.next = @ + 1,
                                 !.skipped_documents = Append(@, filename)]
    /\ UNCHANGED <<storeVars, chatVars, splitVars, pdfVars, folder, stores, uiVars, apiVars, workerVars>>

\* lines 140-153: process_pdf returns, its chunks are added, success is recorded
RunIndex ==
    /\ run.pc = "loop"
    /\ run.next <= Len(run.pdf_files)
    /\ LET filename == run.pdf_files[run.next]
           r == process_pdf(folder[filename], filename)
       IN  /\ ~is_document_indexed(collection, filename)
           /\ r.kind = "returned"
           /\ pdf_call' = [pc |-> "returned", filename |-> filename,
                           pdf |-> folder[filename], result |-> r]
           /\ collection' = add_documents(collection, r.chunks)
           /\ last' = [op |-> "add_documents", filename |-> <<>>,
                       sources |-> SourcesOf(r.chunks), ret |-> 0]
           /\ stores' = IF r.chunks # <<>> THEN Append(stores, filename) ELSE stores
           /\ run' = [run EXCEPT !.next = @ + 1,
                                 !.new_documents = Append(@, filename),
                                 !.total_chunks = @ + Len(r.chunks)]
    /\ UNCHANGED <<chatVars, splitVars, folder, uiVars, apiVars, workerVars>>

\* lines 155-158: process_pdf raises, the failure is recorded
RunFail ==
    /\ run.pc = "loop"
    /\ run.next <= Len(run.pdf_files)
    /\ LET filename == run.pdf_files[run.next]
           r == process_pdf(folder[filename], filename)
       IN  /\ ~is_document_indexed(collection, filename)
           /\ r.kind = "raised"
           /\ pdf_call' = [pc |-> "raised", filename |-> filename,
                           pdf |-> folder[filename], result |-> r]
           /\ run' = [run EXCEPT !.next = @ + 1,
                                 !.failed_documents =
                                     Append(@, [filename |-> filename, error |-> r.msg])]
    /\ UNCHANGED <<storeVars, chatVars, splitVars, folder, stores, uiVars, apiVars, workerVars>>

\* lines 110-113 and 160-201: no file is left, the summary is printed
RunEnd ==
    /\ run.pc = "loop"
    /\ run.next > Len(run.pdf_files)
    /\ run' = [run EXCEPT !.pc = "done"]
    /\ UNCHANGED <<storeVars, chatVars, splitVars, pdfVars, folder, stores, uiVars, apiVars, workerVars>>

IngestInit ==
    /\ collection = <<>>
    /\ last = NoLast
    /\ ChatIdle
    /\ SplitIdle
    /\ PdfIdle
    /\ UiIdle
    /\ ApiIdle
    /\ WorkersIdle
    /\ folder \in Folders
    /\ run = NoRun
    /\ stores = <<>>

IngestNext ==
    \/ \E pdf_files \in get_pdf_files(folder) : ProcessDocuments(pdf_files)
    \/ RunSkip
    \/ RunIndex
    \/ RunFail
    \/ RunEnd

IngestSpec == IngestInit /\ [][IngestNext]_vars

(***************************************************************************)
(* The claims about process_pdf and process_documents.                     *)
(***************************************************************************)
IsBlank(page_text) == \A i \in DOMAIN page_text : page_text[i] \in Whitespace

RecordsOfPage(records, p) == SelectSeq(records, LAMBDA r : r.metadata.page = p)

\* C14: the records process_pdf returns are, page by page in page order, the
\* split_text chunks of each page whose text is not blank: every record has the
\* file name as source, the 1-based number of its page in the PDF (blank pages
\* counted) as page, and its 0-based position among the chunks of its page as
\* chunk.
C14_RecordsPageByPage ==
    pdf_call.pc = "returned" =>
        LET records == pdf_call.result.chunks
            pages == pdf_call.pdf.pages
        IN  /\ \A i \in DOMAIN records :
                  /\ records[i].metadata.source = pdf_call.filename
                  /\ records[i].metadata.page \in DOMAIN pages
            /\ \A i, j \in DOMAIN records :
                  i < j => records[i].metadata.page <= records[j].metadata.page
            /\ \A p \in DOMAIN pages :
                  LET of_page == RecordsOfPage(records, p)
                      expected == IF IsBlank(pages[p]) THEN <<>>
                                  ELSE split_text(pages[p], PageChunkSize, PageOverlap).chunks
                  IN  /\ Len(of_page) = Len(expected)
                      /\ \A k \in DOMAIN of_page :
                            /\ of_page[k].text = expected[k]
                            /\ of_page[k].metadata.chunk = k - 1

C14_Witness ==
    /\ pdf_call.pc = "returned"
    /\ Len(pdf_call.pdf.pages) = 2
    /\ Len(pdf_call.result.chunks) = 5
    /\ [i \in 1..5 |-> pdf_call.result.chunks[i].metadata.page] = <<1, 1, 1, 2, 2>>
    /\ [i \in 1..5 |-> pdf_call.result.chunks[i].metadata.chunk] = <<0, 1, 2, 0, 1>>

\* the ingestion of the PDF fails: it cannot be read, or no page has text
IngestionFails(pdf) ==
    \/ ~pdf.readable
    \/ \A p \in DOMAIN pdf.pages : IsBlank(pdf.pages[p])

\* C15: every ingestion failure, a PDF that cannot be read as well as one with
\* no extractable text, reaches the caller as a failure that names the file: the
\* run records the file as failed with an error naming it, does not record it
\* as indexed, and stores no chunk of it.
C15_IngestionFailureIsReported ==
    \A i \in 1..(run.next - 1) :
        LET filename == run.pdf_files[i]
        IN  IngestionFails(folder[filename]) =>
                /\ ~HasChunkOf(collection, filename)
                /\ \E k \in DOMAIN run.failed_documents :
                      /\ run.failed_documents[k].filename = filename
                      /\ Len(run.failed_documents[k].error) >= 2
                      /\ run.failed_documents[k].error[2] = filename
                /\ \A k \in DOMAIN run.new_documents : run.new_documents[k] # filename

\* C19: a run stores chunks only for a file name that is not indexed; every
\* file name is stored once at most over all the runs; and a run after the
\* first, over the same folder, leaves the stored chunks and their count as
\* they were.
C19_RunsAreIdempotent ==
    [][/\ collection' # collection =>
              \E filename \in DOMAIN folder :
                  /\ ~HasChunkOf(collection, filename)
                  /\ RowsNotOf(collection', filename) = collection
                  /\ HasChunkOf(collection', filename)
       /\ \A i, j \in DOMAIN stores' : i # j => stores'[i] # stores'[j]
       /\ run.number >= 2 =>
              /\ collection' = collection
              /\ get_collection_count(collection') = get_collection_count(collection)]_vars

C19_Witness ==
    /\ run.pc = "done"
    /\ run.number = 2
    /\ Len(run.pdf_files) = 4
    /\ Len(run.skipped_documents) = 2
    /\ Len(run.new_documents) = 2
    /\ get_collection_count(collection) = 2
    /\ Len(stores) = 1

(***************************************************************************)
(* get_response over an index that earlier runs have filled, for every     *)
(* conversation of up to MaxHistory messages.                              *)
(***************************************************************************)
PromptInit ==
    /\ collection = add_documents(<<>>, ChunksOf(<<97>>, 2))
    /\ last = NoLast
    /\ ChatIdle
    /\ SplitIdle
    /\ IngestIdle
    /\ UiIdle
    /\ ApiIdle
    /\ WorkersIdle

PromptNext ==
    \/ \E query \in Queries, chat_history \in Conversations, n_results \in NResults :
          \E rank \in Rankings(collection, n_results) :
              GetResponse(query, chat_history, n_results, rank)
    \/ BuildPrompt
    \/ \E outcome \in HttpOutcomes : CallOllama(outcome)
    \/ Finish

PromptSpec == PromptInit /\ [][PromptNext]_vars

(***************************************************************************)
(* The claims about the prompt and the generation call.                    *)
(***************************************************************************)
PositionOf(piece, s) == CHOOSE i \in DOMAIN s : s[i] = piece

\* the pieces of the prompt between the two headers
HistorySection(prompt) ==
    SubSeq(prompt, PositionOf("\n\nPREVIOUS CONVERSATION:\n", prompt) + 1,
                   PositionOf("\n\nRELEVANT DOCUMENTS:\n", prompt) - 1)

UpperCased(role) == IF role = "user" THEN "USER" ELSE "ASSISTANT"

\* C16: the prompt holds the last min(3, len(chat_history)) history entries and
\* no other, in their order, each on a line of its own as the upper-cased role,
\* ": " and the content; the content of no earlier entry is in the prompt; and
\* when chat_history is empty or None the placeholder stands in their place.
C16_PromptHasLastThreeEntries ==
    pc = "prompted" =>
        LET msgs == locals.chat_history.messages
            n == Len(msgs)
            k == IF n < 3 THEN n ELSE 3
            section == HistorySection(locals.prompt)
        IN  IF locals.chat_history.none \/ n = 0
            THEN section = <<"(No previous conversation)">>
            ELSE /\ Len(section) = 4 * k
                 /\ \A j \in 1..k :
                       /\ section[4 * j - 3] = "\n"
                       /\ section[4 * j - 2] = UpperCased(msgs[n - k + j].role)
                       /\ section[4 * j - 1] = ": "
                       /\ <<section[4 * j]>> = msgs[n - k + j].content
                 /\ \A i \in 1..(n - k) : \A p \in DOMAIN locals.prompt :
                       <<locals.prompt[p]>> # msgs[i].content
                 /\ \A p \in DOMAIN locals.prompt :
                       locals.prompt[p] # "(No previous conversation)"

C16_Witness ==
    /\ pc = "prompted"
    /\ Len(locals.chat_history.messages) = 4
    /\ HistorySection(locals.prompt) =
          <<"\n", "ASSISTANT", ": ", "m2", "\n", "USER", ": ", "m3",
            "\n", "ASSISTANT", ": ", "m4">>

ConnectMessage == "Cannot connect to Ollama. Make sure it's running with: ollama serve"

TimeoutMessage == "Ollama request timed out. Try a smaller model or simpler question."

OtherMessage == "Error calling Ollama: "

\* what get_response makes of an exception of _call_ollama with these pieces
Degraded(msg) == <<"Error getting response from Ollama: ">> \o msg

C18_OneSearchThenOneRequest ==
    [][/\ InCall' => (searches' = 1 /\ requests' <= 1)
       /\ searches' > searches => (pc = "idle" /\ requests' = 0)
       /\ requests' > requests =>
             /\ pc = "prompted"
             /\ searches = 1
             /\ requests = 0
             /\ pc' = "returned"]_vars

C18_Witness ==
    /\ pc = "returned"
    /\ searches = 1
    /\ requests = 1
    /\ locals.http.kind = "response"
    /\ locals.http.status >= 400
    /\ result.sources = <<>>

(***************************************************************************)
(* app.py: one UI session over an index that earlier runs have filled.     *)
(* The script runs top to bottom on every interaction; an interaction is   *)
(* taken when the run before it has ended.                                 *)
(***************************************************************************)
IsPrefix(s, t) == Len(s) <= Len(t) /\ SubSeq(t, 1, Len(s)) = s

\* lines 118-133: the question is appended and get_response is called with the
\* messages before it as chat_history
ChatInput(prompt, rank) ==
    /\ Len(messages) + 2 <= MaxMessages
    /\ messages' = Append(messages, [role |-> "user", content |-> <<prompt>>])
    /\ get_response_search(prompt, History(messages), 5, rank)

AppendAnswer_replaces_question ==
    /\ messages' = [messages EXCEPT ![Len(messages)] =
                       [role |-> "assistant", content |-> result.response,
                        sources |-> result.sources]]
    /\ get_response_return

\* lines 134-155: the answer is appended, or the error when get_response raised
AppendAnswer ==
    /\ messages' = Append(messages,
                      IF result.raised
                      THEN [role |-> "assistant",
                            content |-> <<"Error generating response: ">> \o result.response]
                      ELSE [role |-> "assistant", content |-> result.response,
                            sources |-> result.sources])
    /\ get_response_return

\* lines 99-101: the Clear Chat History button
ClearChatHistory ==
    /\ pc = "idle"
    /\ messages' = <<>>
    /\ UNCHANGED <<storeVars, chatVars, splitVars, pdfVars, ingestVars, apiVars, workerVars>>

\* lines 18-42: the session starts with no message; the chat is shown when the
\* store has indexed documents
AppInit ==
    /\ \E chunklist \in ChunkLists :
          /\ chunklist # <<>>
          /\ collection = add_documents(<<>>, chunklist)
    /\ last = NoLast
    /\ ChatIdle
    /\ SplitIdle
    /\ IngestIdle
    /\ UiIdle
    /\ ApiIdle
    /\ WorkersIdle

AppNext ==
    \/ \E prompt \in Queries : \E rank \in Rankings(collection, 5) : ChatInput(prompt, rank)
    \/ BuildPrompt
    \/ \E outcome \in HttpOutcomes : CallOllama(outcome)
    \/ AppendAnswer
    \/ ClearChatHistory

AppSpec == AppInit /\ [][AppNext]_vars

(***************************************************************************)
(* The claim about the session's messages.                                 *)
(***************************************************************************)
\* C20 as stated: the message list is append-only: in every step the list
\* before is a prefix of the list after.
C20_MessagesAppendOnly == [][IsPrefix(messages, messages')]_vars

\* C20, amended: a step other than the Clear Chat History button leaves the
\* message list before it a prefix of the list after it, one message longer at
\* most; the button, the only exception, empties the list.
C20_AppendOnlyUntilCleared ==
    [][\/ IsPrefix(messages, messages') /\ Len(messages') <= Len(messages) + 1
       \/ ClearChatHistory]_vars

C20_Witness ==
    /\ pc = "idle"
    /\ Len(messages) = 4
    /\ messages[1].role = "user"
    /\ messages[2].role = "assistant"
    /\ messages[2].content = <<"generated answer">>
    /\ messages[4].content = <<"Error getting response from Ollama: ", TimeoutMessage>>

(***************************************************************************)
(* main.py: the upload endpoint.  The names of the uploaded files are      *)
(* sequences of code points: "a.pdf", "B.PDF", "a.txt".                    *)
(***************************************************************************)
UploadNames ==
    {<<97, 46, 112, 100, 102>>, <<66, 46, 80, 68, 70>>, <<97, 46, 116, 120, 116>>}

\* str.lower, on the code points
lower(name) ==
    [i \in DOMAIN name |-> IF name[i] \in 65..90 THEN name[i] + 32 ELSE name[i]]

\* str.endswith
endswith(name, suffix) ==
    /\ Len(name) >= Len(suffix)
    /\ SubSeq(name, Len(name) - Len(suffix) + 1, Len(name)) = suffix

\* ".pdf"
DotPdf == <<46, 112, 100, 102>>

\* document_processor.get_document_stats: the keys of the dictionary it returns,
\* and the values the endpoint reads
get_document_stats(chunklist) ==
    IF chunklist = <<>>
    THEN [keys |-> {"total_chunks", "total_characters", "sources"}, total_chunks |-> 0]
    ELSE [keys |-> {"total_chunks", "total_characters", "sources", "avg_chunk_size"},
          total_chunks |-> Len(chunklist)]

\* the call get_document_stats(chunks) of line 286.  Line 14 imports the name
\* from document_processor, line 209 binds it again to the endpoint of
\* /documents/stats, a function of no argument: the call raises TypeError.
main_get_document_stats(chunklist) ==
    Raised(<<"get_document_stats() takes 0 positional arguments but 1 was given">>)

HttpReply(request, status, detail) ==
    [request |-> request, status |-> status, detail |-> detail, filename |-> <<>>,
     chunks_added |-> 0, pages_processed |-> 0]

\* lines 285-301: the statistics, the store, the reply
upload_index(coll, dir, filename, request, found) ==
    LET stats == main_get_document_stats(found)
    IN  IF stats.raised
        THEN [collection |-> coll, folder |-> dir,
              reply |-> HttpReply(request, 500,
                                  <<"Error uploading document: ">> \o stats.value)]
        ELSE IF "pages" \notin stats.value.keys
        THEN [collection |-> add_documents(coll, found), folder |-> dir,
              reply |-> HttpReply(request, 500, <<"Error uploading document: ", "'pages'">>)]
        ELSE [collection |-> add_documents(coll, found), folder |-> dir,
              reply |-> [request |-> request, status |-> 200,
                         detail |-> <<"Document uploaded and indexed successfully">>,
                         filename |-> filename,
                         chunks_added |-> stats.value.total_chunks,
                         pages_processed |-> stats.value.pages]]

\* upload_document(file): the store, the folder and the reply after the request,
\* given what process_pdf made of the saved file
upload_document(coll, dir, filename, pdf, request, processed) ==
    LET saved == [f \in DOMAIN dir \cup {filename} |-> IF f = filename THEN pdf ELSE dir[f]]
        unlinked == [f \in DOMAIN dir \ {filename} |-> dir[f]]
    IN  IF ~endswith(lower(filename), DotPdf)
        THEN [collection |-> coll, folder |-> dir,
              reply |-> HttpReply(request, 400, <<"Only PDF files are supported">>)]
        ELSE IF is_document_indexed(coll, filename)
        THEN [collection |-> coll, folder |-> dir,
              reply |-> HttpReply(request, 409,
                                  <<"Document '", filename, "' is already indexed">>)]
        ELSE IF processed.kind = "raised"
        THEN [collection |-> coll, folder |-> saved,
              reply |-> HttpReply(request, 500,
                                  <<"Error uploading document: ">> \o processed.msg)]
        ELSE IF processed.chunks = <<>>
        THEN [collection |-> coll, folder |-> unlinked,
              reply |-> HttpReply(request, 400, <<"Failed to extract text from PDF">>)]
        ELSE upload_index(coll, saved, filename, request, processed.chunks)

\* POST /documents/upload, from the request to the reply.  A request whose file
\* makes process_pdf hang gets no reply.
UploadDocument(filename, pdf) ==
    /\ reply.request < MaxUploads
    /\ LET processed == process_pdf(pdf, filename)
           r == upload_document(collection, folder, filename, pdf,
                                reply.request + 1, processed)
       IN  /\ processed.kind # "hangs"
           /\ collection' = r.collection
           /\ folder' = r.folder
           /\ reply' = r.reply
           /\ pdf_call' = IF /\ endswith(lower(filename), DotPdf)
                             /\ ~is_document_indexed(collection, filename)
                          THEN [pc |-> processed.kind, filename |-> filename,
                                pdf |-> pdf, result |-> processed]
                          ELSE pdf_call
    /\ UNCHANGED <<last, chatVars, splitVars, run, stores, uiVars, workerVars>>

\* the server starts over the persistent index: empty, or with the chunks an
\* earlier preprocessing run stored for "a.pdf"
UploadInit ==
    /\ collection \in
          {<<>>,
           add_documents(<<>>, process_pdf(PdfOf(<<OneWordPage>>),
                                           <<97, 46, 112, 100, 102>>).chunks)}
    /\ last = NoLast
    /\ ChatIdle
    /\ SplitIdle
    /\ IngestIdle
    /\ UiIdle
    /\ ApiIdle
    /\ WorkersIdle

UploadNext == \E filename \in UploadNames, pdf \in FolderPdfs : UploadDocument(filename, pdf)

UploadSpec == UploadInit /\ [][UploadNext]_vars

(***************************************************************************)
(* The claim about the upload endpoint.                                    *)
(***************************************************************************)
\* C21: when upload_document receives a PDF whose file name is not indexed and
\* whose text gives at least one chunk, the request stores the chunks of the
\* file (the file name is indexed afterwards, the chunk count has grown by the
\* number of chunks) and the reply is the success reply with chunks_added.
C21_UploadStoresAndSucceeds ==
    [][\A filename \in UploadNames, pdf \in FolderPdfs :
          LET processed == process_pdf(pdf, filename)
          IN  (/\ reply'.request # reply.request
               /\ pdf_call'.filename = filename
               /\ pdf_call'.pdf = pdf
               /\ endswith(lower(filename), DotPdf)
               /\ ~HasChunkOf(collection, filename)
               /\ processed.kind = "returned"
               /\ processed.chunks # <<>>) =>
                  /\ is_document_indexed(collection', filename)
                  /\ get_collection_count(collection') =
                        get_collection_count(collection) + Len(processed.chunks)
                  /\ reply'.status = 200
                  /\ reply'.filename = filename
                  /\ reply'.chunks_added = Len(processed.chunks)]_vars


\* C22: with 0 <= overlap < chunk_size, the cursor of split_text is never
\* negative and never beyond the end of the text at the beginning of a loop
\* iteration, and every iteration leaves it strictly greater than it found it.
C22_CursorStrictlyAdvances ==
    [][(Precondition /\ split_pc = "cut") =>
          /\ 0 <= start /\ start <= Len(text)
          /\ 0 <= start'
          /\ start < start']_vars


(***************************************************************************)
(* Two ingestion runs side by side over the same persistent index.  Each   *)
(* touches the index in two calls, is_document_indexed and add_documents,  *)
(* with process_pdf between them; the calls of the two runs interleave.    *)
(***************************************************************************)
\* lines 83-124 of preprocess_documents.py: the store is opened, the folder listed
WorkerStart(w, pdf_files) ==
    /\ workers[w].pc = "idle"
    /\ workers' = [workers EXCEPT ![w] = [NoWorker EXCEPT !.pc = "loop",
                                                          !.pdf_files = pdf_files]]
    /\ UNCHANGED <<storeVars, chatVars, splitVars, pdfVars, ingestVars, uiVars, apiVars>>

\* lines 126-135: is_document_indexed answers yes, the file is skipped
WorkerSkip(w) ==
    /\ workers[w].pc = "loop"
    /\ workers[w].next <= Len(workers[w].pdf_files)
    /\ is_document_indexed(collection, workers[w].pdf_files[workers[w].next])
    /\ workers' = [workers EXCEPT ![w].next = @ + 1]
    /\ UNCHANGED <<storeVars, chatVars, splitVars, pdfVars, ingestVars, uiVars, apiVars>>

\* lines 132-141: is_document_indexed answers no, process_pdf returns the chunks
WorkerProcess(w) ==
    /\ workers[w].pc = "loop"
    /\ workers[w].next <= Len(workers[w].pdf_files)
    /\ LET filename == workers[w].pdf_files[workers[w].next]
           r == process_pdf(folder[filename], filename)
       IN  /\ ~is_document_indexed(collection, filename)
           /\ r.kind = "returned"
           /\ workers' = [workers EXCEPT ![w].pc = "processed",
                                         ![w].filename = filename,
                                         ![w].chunks = r.chunks]
    /\ UNCHANGED <<storeVars, chatVars, splitVars, pdfVars, ingestVars, uiVars, apiVars>>

\* lines 132-141 and 155-158: is_document_indexed answers no, process_pdf raises
WorkerFail(w) ==
    /\ workers[w].pc = "loop"
    /\ workers[w].next <= Len(workers[w].pdf_files)
    /\ LET filename == workers[w].pdf_files[workers[w].next]
           r == process_pdf(folder[filename], filename)
       IN  /\ ~is_document_indexed(collection, filename)
           /\ r.kind = "raised"
           /\ workers' = [workers EXCEPT ![w].next = @ + 1]
    /\ UNCHANGED <<storeVars, chatVars, splitVars, pdfVars, ingestVars, uiVars, apiVars>>

\* lines 147-153: add_documents stores the chunks, the loop goes on
WorkerAdd(w) ==
    /\ workers[w].pc = "processed"
    /\ collection' = add_documents(collection, workers[w].chunks)
    /\ last' = [op |-> "add_documents", filename |-> <<>>,
                sources |-> SourcesOf(workers[w].chunks), ret |-> 0]
    /\ workers' = [workers EXCEPT ![w].pc = "loop", ![w].next = @ + 1,
                                  ![w].filename = <<>>, ![w].chunks = <<>>]
    /\ UNCHANGED <<chatVars, splitVars, pdfVars, ingestVars, uiVars, apiVars>>

\* lines 160-201: no file is left
WorkerEnd(w) ==
    /\ workers[w].pc = "loop"
    /\ workers[w].next > Len(workers[w].pdf_files)
    /\ workers' = [workers EXCEPT ![w].pc = "done"]
    /\ UNCHANGED <<storeVars, chatVars, splitVars, pdfVars, ingestVars, uiVars, apiVars>>

ConcurrentInit ==
    /\ collection = <<>>
    /\ last = NoLast
    /\ ChatIdle
    /\ SplitIdle
    /\ PdfIdle
    /\ UiIdle
    /\ ApiIdle
    /\ WorkersIdle
    /\ folder \in Folders
    /\ run = NoRun
    /\ stores = <<>>

ConcurrentNext ==
    \E w \in Workers :
        \/ \E pdf_files \in get_pdf_files(folder) : WorkerStart(w, pdf_files)
        \/ WorkerSkip(w)
        \/ WorkerProcess(w)
        \/ WorkerFail(w)
        \/ WorkerAdd(w)
        \/ WorkerEnd(w)

ConcurrentSpec == ConcurrentInit /\ [][ConcurrentNext]_vars

(***************************************************************************)
(* The claim about concurrent ingestion.                                   *)
(***************************************************************************)
\* C23: when two ingestion runs handle the same file name, not yet indexed, at
\* the same time, at most one of them stores the chunks of the file under every
\* interleaving: the index never holds the same chunk of a file twice.
C23_NoFileStoredTwice ==
    \A i, j \in DOMAIN collection :
        i # j => collection[i].metadata # collection[j].metadata

====
